---- MODULE Spec2Model ----
(***************************************************************************)
(* Model of the per-connection STOMP session of server/client/conn.go:     *)
(* the reader go-routine, the processLoop go-routine with its state        *)
(* functions and command handlers, cleanupConn, the pending-ack            *)
(* SubscriptionList and the frame validator of the message package.        *)
(*                                                                         *)
(* The socket and the upper-layer request channel are observed through one *)
(* variable, log: the sequence of frames written to the socket and of      *)
(* requests received by the upper layer, in the order they happened.       *)
(***************************************************************************)
EXTENDS Integers, Sequences, FiniteSets, TLC

VARIABLES
    pc,            \* processLoop: "run", "cleanup", "drain", "done"
    panicked,      \* processLoop left its loop by a run-time panic
    stateFunc,     \* c.stateFunc: "connecting" or "connected"
    readChannel,   \* c.readChannel: frames read and not yet processed
    readClosed,    \* close(c.readChannel) has happened (readLoop returned)
    inbound,       \* the frames the reader has read so far, as they arrived
    writeChannel,  \* c.writeChannel
    subChannel,    \* c.subChannel: subscriptions with a frame to deliver
    subFrame,      \* sub.frame of every subscription
    inList,        \* sub.subList != nil of every subscription
    subList,       \* c.subList: subscriptions awaiting acknowledgement
    subs,          \* c.subs
    txStore,       \* c.txStore: transaction id -> frames
    lastMsgId,     \* c.lastMsgId
    readTimeout,   \* c.readTimeout in milliseconds
    writeTimeout,  \* c.writeTimeout in milliseconds
    version,       \* c.version
    broken,        \* writes to the socket fail from now on
    rwClosed,      \* c.rw.Close() has been called
    awaiting,      \* subscriptions the upper layer has handed over for delivery
    budget,        \* what the environment may still do, see the bounds
    scenario,      \* the vocabulary of the client of this session
    timer,         \* time since processLoop made its timer (time.NewTimer)
    idle,          \* time since the last write to the socket
    held,          \* the frame readLoop is sending on a full c.readChannel
    log            \* socket writes and upper-layer requests, in order

vars == <<pc, panicked, stateFunc, readChannel, readClosed, inbound, writeChannel,
          subChannel, subFrame, inList, subList, subs, txStore, lastMsgId,
          readTimeout, writeTimeout, version, broken, rwClosed, awaiting,
          budget, scenario, timer, idle, held, log>>

----------------------------------------------------------------------------
(* Bounds of the model *)

\* inbound frames the client sends in a session with transactions
MaxFrames == 5
\* inbound frames the client sends in a session of another scenario
MaxShort == 3
\* frames the reader is ahead of processLoop
MaxAhead == 1
\* deliveries the upper layer pushes on the subscription channel
MaxDeliveries == 2
\* frames the upper layer pushes on the write channel
MaxSends == 1
\* heart-beats the timer branch writes
MaxBeats == 1
\* entries of the accept-version header of a CONNECT or STOMP frame
MaxVersions == 3
\* operations applied to a subscription list on its own
MaxOps == 3
\* the write interval c.writeTimeout in units of time (the resolution of the
\* clock of the model)
TicksPerInterval == 2

(* Program constants *)
maxPendingWrites == 16
maxPendingReads == 16
\* c.config.HeartBeat() in milliseconds, the server's minimum
configHeartBeat == 800

None == "none"

----------------------------------------------------------------------------
(* message.Frame *)

NoDigits == << >>

Frame(cmd) ==
    [cmd |-> cmd, receipt |-> None, transaction |-> None, id |-> None,
     destination |-> None, host |-> None, login |-> None,
     acceptVersion |-> << >>, heartBeat |-> << >>,
     receiptId |-> None, message |-> None, messageId |-> NoDigits,
     ack |-> NoDigits, subscription |-> None, n |-> 0]

NilFrame == Frame("nil")

\* f.Contains(name) for the headers with a string value
Contains(f, name) ==
    CASE name = "receipt" -> f.receipt # None
      [] name = "transaction" -> f.transaction # None
      [] name = "id" -> f.id # None
      [] name = "destination" -> f.destination # None
      [] name = "host" -> f.host # None
      [] name = "login" -> f.login # None
      [] name = "receipt-id" -> f.receiptId # None
      [] name = "subscription" -> f.subscription # None
      [] name = "message-id" -> f.messageId # NoDigits
      [] name = "ack" -> f.ack # NoDigits
      [] name = "accept-version" -> f.acceptVersion # << >>
      [] name = "heart-beat" -> f.heartBeat # << >>
      [] OTHER -> FALSE

\* strconv.FormatUint(n, 10): the decimal digits of n, most significant first
RECURSIVE FormatUint(_)
FormatUint(n) ==
    IF n < 10 THEN <<n>> ELSE Append(FormatUint(n \div 10), n % 10)

\* the number a sequence of decimal digits denotes
RECURSIVE ParseUint(_)
ParseUint(d) ==
    IF d = << >> THEN 0
    ELSE 10 * ParseUint(SubSeq(d, 1, Len(d) - 1)) + d[Len(d)]

\* The strings that occur as entries of accept-version, in the order of
\* sort.Strings
VersionOrder == <<"0.9", "1.0", "1.1", "1.2", "2.0">>

Rank(v) == CHOOSE i \in 1..Len(VersionOrder) : VersionOrder[i] = v

RECURSIVE Insert(_, _)
Insert(sorted, v) ==
    IF sorted = << >> THEN <<v>>
    ELSE IF Rank(v) < Rank(Head(sorted)) THEN <<v>> \o sorted
    ELSE <<Head(sorted)>> \o Insert(Tail(sorted), v)

RECURSIVE SortStrings(_)
SortStrings(s) ==
    IF s = << >> THEN << >> ELSE Insert(SortStrings(Tail(s)), Head(s))

RECURSIVE ScanVersions(_, _)
ScanVersions(versions, acc) ==
    IF versions = << >> THEN acc
    ELSE ScanVersions(Tail(versions),
                      IF Head(versions) \in {"1.0", "1.1", "1.2"}
                      THEN [version |-> Head(versions), err |-> ""]
                      ELSE acc)

\* AcceptVersion scanning the entries in the order of the header
AcceptVersionUnsorted(f) ==
    IF f.cmd # "CONNECT" /\ f.cmd # "STOMP"
    THEN [version |-> "", err |-> "notConnectFrame"]
    ELSE IF Contains(f, "accept-version")
    THEN ScanVersions(f.acceptVersion, [version |-> "", err |-> "unknownVersion"])
    ELSE IF f.cmd = "CONNECT"
    THEN [version |-> "1.0", err |-> ""]
    ELSE [version |-> "", err |-> "missingHeader:accept-version"]

\* f.AcceptVersion(): [version, err]
AcceptVersion(f) ==
    IF f.cmd # "CONNECT" /\ f.cmd # "STOMP"
    THEN [version |-> "", err |-> "notConnectFrame"]
    ELSE IF Contains(f, "accept-version")
    THEN ScanVersions(SortStrings(f.acceptVersion),
                      [version |-> "", err |-> "unknownVersion"])
    ELSE IF f.cmd = "CONNECT"
    THEN [version |-> "1.0", err |-> ""]
    ELSE [version |-> "", err |-> "missingHeader:accept-version"]

\* heartBeatRegexp.MatchString: two numbers of one to nine digits
MatchHeartBeat(hb) ==
    /\ Len(hb) = 2
    /\ hb[1] >= 0 /\ hb[1] <= 999999999
    /\ hb[2] >= 0 /\ hb[2] <= 999999999

\* f.HeartBeat(): [cx, cy, err]
HeartBeat(f) ==
    IF f.cmd \notin {"CONNECT", "STOMP", "CONNECTED"}
    THEN [cx |-> 0, cy |-> 0, err |-> "invalidOperationForFrame"]
    ELSE IF Contains(f, "heart-beat")
    THEN IF ~MatchHeartBeat(f.heartBeat)
         THEN [cx |-> 0, cy |-> 0, err |-> "invalidHeartBeat"]
         ELSE [cx |-> f.heartBeat[1], cy |-> f.heartBeat[2], err |-> ""]
    ELSE [cx |-> 0, cy |-> 0, err |-> ""]

RECURSIVE verifyRequiredHeaders(_, _)
verifyRequiredHeaders(f, names) ==
    IF names = << >> THEN ""
    ELSE IF ~Contains(f, Head(names)) THEN "missingHeader:" \o Head(names)
    ELSE verifyRequiredHeaders(f, Tail(names))

validateConnect(f) ==
    LET av == AcceptVersion(f) IN
    IF av.err # "" THEN av.err
    ELSE IF av.version = "1.0" THEN ""
    ELSE IF verifyRequiredHeaders(f, <<"host">>) # ""
    THEN verifyRequiredHeaders(f, <<"host">>)
    ELSE IF Contains(f, "heart-beat") /\ ~MatchHeartBeat(f.heartBeat)
    THEN "invalidHeartBeat"
    ELSE ""

\* Validate letting a frame with a command it does not know pass
ValidateKnownOnly(f) ==
    CASE f.cmd \in {"CONNECT", "STOMP"} -> validateConnect(f)
      [] f.cmd = "SEND" -> verifyRequiredHeaders(f, <<"destination">>)
      [] f.cmd = "SUBSCRIBE" -> verifyRequiredHeaders(f, <<"destination", "id">>)
      [] f.cmd \in {"UNSUBSCRIBE", "ACK", "NACK"} ->
            verifyRequiredHeaders(f, <<"id">>)
      [] f.cmd \in {"BEGIN", "COMMIT", "ABORT"} ->
            verifyRequiredHeaders(f, <<"transaction">>)
      [] f.cmd = "MESSAGE" ->
            verifyRequiredHeaders(f, <<"destination", "message-id", "subscription">>)
      [] f.cmd = "RECEIPT" -> verifyRequiredHeaders(f, <<"receipt-id">>)
      [] OTHER -> ""

\* f.Validate(): "" or the error
Validate(f) ==
    CASE f.cmd \in {"CONNECT", "STOMP"} -> validateConnect(f)
      [] f.cmd = "CONNECTED" -> ""
      [] f.cmd = "SEND" -> verifyRequiredHeaders(f, <<"destination">>)
      [] f.cmd = "SUBSCRIBE" -> verifyRequiredHeaders(f, <<"destination", "id">>)
      [] f.cmd \in {"UNSUBSCRIBE", "ACK", "NACK"} ->
            verifyRequiredHeaders(f, <<"id">>)
      [] f.cmd \in {"BEGIN", "COMMIT", "ABORT"} ->
            verifyRequiredHeaders(f, <<"transaction">>)
      [] f.cmd = "DISCONNECT" -> ""
      [] f.cmd = "MESSAGE" ->
            verifyRequiredHeaders(f, <<"destination", "message-id", "subscription">>)
      [] f.cmd = "RECEIPT" -> verifyRequiredHeaders(f, <<"receipt-id">>)
      [] f.cmd = "ERROR" -> ""
      [] OTHER -> "invalidCommand"

----------------------------------------------------------------------------
(* The socket and the upper layer's request channel, as observed *)

\* a frame written to the socket by c.writer.Write; src is the number of
\* the inbound frame it answers (0: none); Write(nil) is a heart-beat
WriteEv(f, src) ==
    [kind |-> "write", op |-> "", frame |-> f, sub |-> None, src |-> src]

\* a Request received by the upper layer from c.requestChannel
ReqEv(op, f, sub) ==
    [kind |-> "req", op |-> op, frame |-> f, sub |-> sub, src |-> f.n]

----------------------------------------------------------------------------
(* txStore: the transactions in progress, transaction id -> frames *)

EmptyStore == [t \in {} |-> << >>]

txInit(store) == EmptyStore

txBegin(store, tx) ==
    IF tx \in DOMAIN store
    THEN [store |-> store, err |-> "txAlreadyInProgress"]
    ELSE [store |-> [t \in DOMAIN store \cup {tx} |->
                        IF t = tx THEN << >> ELSE store[t]],
          err |-> ""]

\* the transaction header is removed from the frame that is stored
txAdd(store, tx, f) ==
    IF tx \in DOMAIN store
    THEN LET g == [f EXCEPT !.transaction = None] IN
         [store |-> [store EXCEPT ![tx] = Append(@, g)], f |-> g, err |-> ""]
    ELSE [store |-> store, f |-> f, err |-> "txUnknown"]

txRemove(store, tx) == [t \in DOMAIN store \ {tx} |-> store[t]]

txAbort(store, tx) ==
    IF tx \in DOMAIN store
    THEN [store |-> txRemove(store, tx), err |-> ""]
    ELSE [store |-> store, err |-> "txUnknown"]

----------------------------------------------------------------------------
(* Conn: the part of the connection the state functions work on.           *)
(* c.wok: the socket accepts writes; c.cur: number of the inbound frame    *)
(* the next write answers.  A handler yields [c, f, err]: the connection   *)
(* and the frame as it leaves them, and its error ("": nil).               *)

\* c.config.Authenticate(login, passcode)
Authenticate(login) == login # "mallory"

\* c.writer.Write(f) through sendImmediately
sendImmediately(c, f) ==
    IF c.wok
    THEN [c |-> [c EXCEPT !.log = Append(@, WriteEv(f, c.cur)), !.tried = TRUE],
          err |-> ""]
    ELSE [c |-> [c EXCEPT !.tried = TRUE], err |-> "writeFailed"]

sendErrorImmediately(c, err, f) ==
    LET errorFrame == [Frame("ERROR") EXCEPT !.message = err]
        withId == IF f # NilFrame /\ Contains(f, "receipt")
                  THEN [errorFrame EXCEPT !.receiptId = f.receipt]
                  ELSE errorFrame
    IN  [sendImmediately([c EXCEPT !.cur = f.n], withId).c EXCEPT !.cur = c.cur]

\* sendReceiptImmediately leaving the receipt header on the frame
sendReceiptKeep(c, f) ==
    IF Contains(f, "receipt")
    THEN LET r == sendImmediately([c EXCEPT !.cur = f.n],
                    [Frame("RECEIPT") EXCEPT !.receiptId = f.receipt])
         IN  [c |-> [r.c EXCEPT !.cur = c.cur], f |-> f, err |-> r.err]
    ELSE [c |-> c, f |-> f, err |-> ""]

sendReceiptImmediately(c, f) ==
    IF Contains(f, "receipt")
    THEN LET r == sendImmediately([c EXCEPT !.cur = f.n],
                    [Frame("RECEIPT") EXCEPT !.receiptId = f.receipt])
         IN  [c |-> [r.c EXCEPT !.cur = c.cur],
              f |-> [f EXCEPT !.receipt = None], err |-> r.err]
    ELSE [c |-> c, f |-> f, err |-> ""]

\* c.requestChannel <- Request{Op: EnqueueOp, Frame: f}
Enqueue(c, f) == [c EXCEPT !.log = Append(@, ReqEv("Enqueue", f, None))]

\* handleConnect writing the heart-beat header as the client sent it, cx first
handleConnectNoSwap(c, f) ==
    LET av == AcceptVersion(f)
        hb == HeartBeat(f)
        min == configHeartBeat
        cx == IF hb.cx > 0 /\ hb.cx < min THEN min ELSE hb.cx
        cy == IF hb.cy > 0 /\ hb.cy < min THEN min ELSE hb.cy
        response == [Frame("CONNECTED") EXCEPT !.heartBeat = <<cx, cy>>]
    IN
    IF Contains(f, "receipt") THEN [c |-> c, f |-> f, err |-> "receiptInConnect"]
    ELSE IF ~Authenticate(f.login)
    THEN [c |-> c, f |-> f, err |-> "authenticationFailed"]
    ELSE IF av.err # ""
    THEN [c |-> [c EXCEPT !.version = av.version], f |-> f, err |-> av.err]
    ELSE IF hb.err # ""
    THEN [c |-> [c EXCEPT !.version = av.version], f |-> f, err |-> hb.err]
    ELSE [c |-> [c EXCEPT !.version = av.version,
                          !.readTimeout = cx,
                          !.writeTimeout = cy,
                          !.writeChannel = Append(@, response),
                          !.stateFunc = "connected"],
          f |-> f, err |-> ""]

\* handleConnect not asking c.config.Authenticate
handleConnectNoAuth(c, f) ==
    LET av == AcceptVersion(f)
        hb == HeartBeat(f)
        min == configHeartBeat
        cx == IF hb.cx > 0 /\ hb.cx < min THEN min ELSE hb.cx
        cy == IF hb.cy > 0 /\ hb.cy < min THEN min ELSE hb.cy
        response == [Frame("CONNECTED") EXCEPT !.heartBeat = <<cy, cx>>]
    IN
    IF Contains(f, "receipt") THEN [c |-> c, f |-> f, err |-> "receiptInConnect"]
    ELSE IF av.err # ""
    THEN [c |-> [c EXCEPT !.version = av.version], f |-> f, err |-> av.err]
    ELSE IF hb.err # ""
    THEN [c |-> [c EXCEPT !.version = av.version], f |-> f, err |-> hb.err]
    ELSE [c |-> [c EXCEPT !.version = av.version,
                          !.readTimeout = cx,
                          !.writeTimeout = cy,
                          !.writeChannel = Append(@, response),
                          !.stateFunc = "connected"],
          f |-> f, err |-> ""]

handleConnect(c, f) ==
    LET av == AcceptVersion(f)
        hb == HeartBeat(f)
        min == configHeartBeat
        cx == IF hb.cx > 0 /\ hb.cx < min THEN min ELSE hb.cx
        cy == IF hb.cy > 0 /\ hb.cy < min THEN min ELSE hb.cy
        response == [Frame("CONNECTED") EXCEPT !.heartBeat = <<cy, cx>>]
    IN
    IF Contains(f, "receipt") THEN [c |-> c, f |-> f, err |-> "receiptInConnect"]
    ELSE IF ~Authenticate(f.login)
    THEN [c |-> c, f |-> f, err |-> "authenticationFailed"]
    ELSE IF av.err # ""
    THEN [c |-> [c EXCEPT !.version = av.version], f |-> f, err |-> av.err]
    ELSE IF hb.err # ""
    THEN [c |-> [c EXCEPT !.version = av.version], f |-> f, err |-> hb.err]
    ELSE [c |-> [c EXCEPT !.version = av.version,
                          !.readTimeout = cx,
                          !.writeTimeout = cy,
                          !.writeChannel = Append(@, response),
                          !.stateFunc = "connected"],
          f |-> f, err |-> ""]

\* connecting not looking at the command of the frame
connectingAny(c, f) == handleConnect(c, f)

connecting(c, f) ==
    IF f.cmd \in {"CONNECT", "STOMP"} THEN handleConnect(c, f)
    ELSE [c |-> c, f |-> f, err |-> "notConnected"]

handleDisconnect(c, f) ==
    LET r == sendReceiptImmediately(c, f) IN [c |-> r.c, f |-> r.f, err |-> ""]

handleBegin(c, f) ==
    IF Contains(f, "transaction")
    THEN LET r == sendReceiptImmediately(c, f)
             b == txBegin(r.c.txStore, f.transaction)
         IN  IF r.err # "" THEN r
             ELSE [c |-> [r.c EXCEPT !.txStore = b.store], f |-> r.f, err |-> b.err]
    ELSE [c |-> c, f |-> f, err |-> "missingHeader"]

handleAbort(c, f) ==
    IF Contains(f, "transaction")
    THEN LET r == sendReceiptImmediately(c, f)
             a == txAbort(r.c.txStore, f.transaction)
         IN  IF r.err # "" THEN r
             ELSE [c |-> [r.c EXCEPT !.txStore = a.store], f |-> r.f, err |-> a.err]
    ELSE [c |-> c, f |-> f, err |-> "missingHeader"]

\* handleSend passing a SEND on whether or not it is in a transaction
handleSendNoTx(c, f) ==
    LET r == sendReceiptImmediately(c, f) IN
    IF r.err # "" THEN r ELSE [c |-> Enqueue(r.c, r.f), f |-> r.f, err |-> ""]

handleSend(c, f) ==
    LET r == sendReceiptImmediately(c, f) IN
    IF r.err # "" THEN r
    ELSE IF Contains(r.f, "transaction")
    THEN LET a == txAdd(r.c.txStore, r.f.transaction, r.f) IN
         [c |-> [r.c EXCEPT !.txStore = a.store], f |-> a.f, err |-> a.err]
    ELSE [c |-> Enqueue(r.c, r.f), f |-> r.f, err |-> ""]

\* sendFrameRequest passing the frame on before the receipt is written
sendFrameRequestEarly(c, f) ==
    LET r == sendReceiptImmediately(Enqueue(c, [f EXCEPT !.receipt = None]), f) IN
    IF r.err # "" THEN r ELSE [c |-> r.c, f |-> r.f, err |-> ""]

sendFrameRequest(c, f) ==
    LET r == sendReceiptImmediately(c, f) IN
    IF r.err # "" THEN r
    ELSE [c |-> Enqueue(r.c, r.f), f |-> r.f, err |-> ""]

handleSubscribe(c, f) == sendFrameRequest(c, f)

handleUnsubscribe(c, f) == sendFrameRequest(c, f)

handleAck(c, f) == sendFrameRequest(c, f)

handleNack(c, f) == sendFrameRequest(c, f)

RECURSIVE callStateFunc(_, _)

\* txStore.Commit's loop: the callback on each frame, in order, until one fails
RECURSIVE txReplay(_, _)
txReplay(c, frames) ==
    IF frames = << >> THEN [c |-> c, err |-> ""]
    ELSE LET r == callStateFunc(c, Head(frames)) IN
         IF r.err # "" THEN [c |-> r.c, err |-> r.err]
         ELSE txReplay(r.c, Tail(frames))

\* txStore.Commit(tx, callback)
txCommit(c, tx) ==
    IF tx \in DOMAIN c.txStore
    THEN txReplay([c EXCEPT !.txStore = txRemove(@, tx)], c.txStore[tx])
    ELSE [c |-> c, err |-> "txUnknown"]

\* handleCommit writing the receipt after the transaction is replayed
handleCommitLate(c, f) ==
    IF Contains(f, "transaction")
    THEN LET k == txCommit(c, f.transaction)
             r == sendReceiptImmediately(k.c, f)
         IN  IF k.err # "" THEN [c |-> k.c, f |-> f, err |-> k.err]
             ELSE [c |-> r.c, f |-> r.f, err |-> r.err]
    ELSE [c |-> c, f |-> f, err |-> "missingHeader"]

handleCommit(c, f) ==
    IF Contains(f, "transaction")
    THEN LET r == sendReceiptImmediately(c, f) IN
         IF r.err # "" THEN r
         ELSE LET k == txCommit(r.c, f.transaction) IN
              [c |-> k.c, f |-> r.f, err |-> k.err]
    ELSE [c |-> c, f |-> f, err |-> "missingHeader"]

\* connected taking a CONNECT or STOMP frame as a new handshake
connectedAgain(c, f) ==
    CASE f.cmd \in {"CONNECT", "STOMP"} -> handleConnect(c, f)
      [] f.cmd = "DISCONNECT" -> handleDisconnect(c, f)
      [] f.cmd = "BEGIN" -> handleBegin(c, f)
      [] f.cmd = "ABORT" -> handleAbort(c, f)
      [] f.cmd = "COMMIT" -> handleCommit(c, f)
      [] f.cmd = "SEND" -> handleSend(c, f)
      [] f.cmd = "SUBSCRIBE" -> handleSubscribe(c, f)
      [] f.cmd = "UNSUBSCRIBE" -> handleUnsubscribe(c, f)
      [] f.cmd = "ACK" -> handleAck(c, f)
      [] f.cmd = "NACK" -> handleNack(c, f)
      [] f.cmd \in {"MESSAGE", "RECEIPT", "ERROR"} ->
            [c |-> c, f |-> f, err |-> "unexpectedCommand"]
      [] OTHER -> [c |-> c, f |-> f, err |-> "unknownCommand"]

connected(c, f) ==
    CASE f.cmd \in {"CONNECT", "STOMP"} -> [c |-> c, f |-> f, err |-> "unexpectedCommand"]
      [] f.cmd = "DISCONNECT" -> handleDisconnect(c, f)
      [] f.cmd = "BEGIN" -> handleBegin(c, f)
      [] f.cmd = "ABORT" -> handleAbort(c, f)
      [] f.cmd = "COMMIT" -> handleCommit(c, f)
      [] f.cmd = "SEND" -> handleSend(c, f)
      [] f.cmd = "SUBSCRIBE" -> handleSubscribe(c, f)
      [] f.cmd = "UNSUBSCRIBE" -> handleUnsubscribe(c, f)
      [] f.cmd = "ACK" -> handleAck(c, f)
      [] f.cmd = "NACK" -> handleNack(c, f)
      [] f.cmd \in {"MESSAGE", "RECEIPT", "ERROR"} ->
            [c |-> c, f |-> f, err |-> "unexpectedCommand"]
      [] OTHER -> [c |-> c, f |-> f, err |-> "unknownCommand"]

\* c.stateFunc(c, f)
callStateFunc(c, f) ==
    IF c.stateFunc = "connecting" THEN connecting(c, f) ELSE connected(c, f)

----------------------------------------------------------------------------
(* Subscriptions and the upper layer *)

\* the subscriptions of the session, by the id of their SUBSCRIBE frame
SubIds == {"s1", "s2", "s3"}

\* sub.ack, the ack mode the subscription was made with
SubAck(s) ==
    CASE s = "s1" -> "client"
      [] s = "s2" -> "auto"
      [] s = "s3" -> "client-individual"

Range(q) == {q[i] : i \in 1..Len(q)}

DigitChars == <<"0", "1", "2", "3", "4", "5", "6", "7", "8", "9">>

\* the header value a sequence of digits is written as
RECURSIVE DigitString(_)
DigitString(d) ==
    IF d = << >> THEN "" ELSE DigitChars[Head(d) + 1] \o DigitString(Tail(d))

IsReq(e, op) == e.kind = "req" /\ e.op = op

IsWrite(e, cmd) == e.kind = "write" /\ e.frame.cmd = cmd

\* the client has subscribed with id s and not unsubscribed since, as the
\* upper layer knows from the frames passed to it
RECURSIVE Subscribed(_, _)
Subscribed(events, s) ==
    IF events = << >> THEN FALSE
    ELSE LET e == events[Len(events)] IN
         IF IsReq(e, "Enqueue") /\ e.frame.id = s
            /\ e.frame.cmd \in {"SUBSCRIBE", "UNSUBSCRIBE"}
         THEN e.frame.cmd = "SUBSCRIBE"
         ELSE Subscribed(SubSeq(events, 1, Len(events) - 1), s)

\* what a request tells the upper layer about the deliveries it is waiting
\* for: a delivery is over when it is reported delivered (Subscribe),
\* acknowledged by the client (ACK or NACK naming its ack header) or
\* handed back (Requeue)
Settles(e, s, frames) ==
    \/ IsReq(e, "Subscribe") /\ e.sub = s
    \/ IsReq(e, "Requeue") /\ e.frame.subscription = s
    \/ /\ IsReq(e, "Enqueue") /\ e.frame.cmd \in {"ACK", "NACK"}
       /\ frames[s].ack # NoDigits
       /\ e.frame.id = DigitString(frames[s].ack)

UpperObserve(aw, events, frames) ==
    {s \in aw : \A i \in 1..Len(events) : ~Settles(events[i], s, frames)}

\* the frames the upper layer sends without acknowledgement
TopicMessage(s) ==
    [Frame("MESSAGE") EXCEPT !.destination = "/t", !.subscription = s]

QueueMessage(s) ==
    [Frame("MESSAGE") EXCEPT !.destination = "/q", !.subscription = s]

----------------------------------------------------------------------------
(* The frames a client sends.  A session is one of a few scenarios, each   *)
(* with the vocabulary of one kind of client.                              *)

Connect == [Frame("CONNECT") EXCEPT !.login = "guest"]

Send(dest, tx, receipt) ==
    [Frame("SEND") EXCEPT !.destination = dest, !.transaction = tx,
                          !.receipt = receipt]

Tx(cmd, tx, receipt) ==
    [Frame(cmd) EXCEPT !.transaction = tx, !.receipt = receipt]

Subscribe(s, receipt) ==
    [Frame("SUBSCRIBE") EXCEPT !.destination = "/q", !.id = s, !.receipt = receipt]

WithId(cmd, id, receipt) == [Frame(cmd) EXCEPT !.id = id, !.receipt = receipt]

WithReceipt(cmd, receipt) == [Frame(cmd) EXCEPT !.receipt = receipt]

Scenarios == {"handshake", "tx", "sub", "topic", "beat", "flood"}

\* the values of an accept-version header: up to MaxVersions entries, in any
\* order, with repetitions and entries that are no version of STOMP
VersionLists ==
    UNION {[1..k -> {VersionOrder[i] : i \in 1..Len(VersionOrder)}] :
              k \in 0..MaxVersions}

\* the CONNECT and STOMP frames of a client that only negotiates a version
VersionFrames ==
    {[Frame(cmd) EXCEPT !.login = "guest", !.host = "/", !.acceptVersion = l] :
        cmd \in {"CONNECT", "STOMP"}, l \in VersionLists}

InFrames(sc) ==
    CASE sc = "handshake" ->
            {Connect,
             [Connect EXCEPT !.receipt = "r1"],
             [Connect EXCEPT !.login = "mallory"],
             [Connect EXCEPT !.acceptVersion = <<"1.2", "1.0">>],
             [Connect EXCEPT !.acceptVersion = <<"1.0", "1.2">>, !.host = "/",
                             !.heartBeat = <<500, 1000>>],
             [Connect EXCEPT !.cmd = "STOMP"],
             Send("/q", None, "r1"),
             Send(None, None, "r1"),
             WithReceipt("RECEIPT", "r1"),
             [Frame("RECEIPT") EXCEPT !.receiptId = "r1"],
             [TopicMessage("s1") EXCEPT !.messageId = <<1>>],
             Frame("ERROR"),
             WithReceipt("BOGUS", "r1")}
      [] sc = "tx" ->
            {Connect,
             Tx("BEGIN", "t1", None), Tx("BEGIN", "t1", "r1"),
             Send("/q", "t1", None), Send("/q", "t1", "r1"),
             Send("/q", None, "r1"),
             Tx("COMMIT", "t1", "r1"), Tx("ABORT", "t1", "r1")}
      [] sc = "sub" ->
            {Connect,
             Subscribe("s1", "r1"), Subscribe("s3", "r1"),
             WithId("ACK", "1", "r1"),
             WithReceipt("DISCONNECT", "r1")}
      [] sc = "topic" ->
            {Connect,
             Subscribe("s2", "r1"),
             WithId("UNSUBSCRIBE", "s2", "r1"),
             WithId("NACK", "1", "r1")}
      [] sc = "beat" ->
            {[Connect EXCEPT !.heartBeat = <<0, 500>>],
             Send("/q", None, None), Send("/q", None, "r1"),
             WithReceipt("DISCONNECT", None)}
      [] sc = "flood" -> {Connect}
      [] sc = "versions" -> VersionFrames

\* what the upper layer and the timer do at most in a scenario
Budget(sc) ==
    [frames |-> IF sc = "tx" THEN MaxFrames
                ELSE IF sc = "versions" THEN 1
                ELSE IF sc = "flood" THEN maxPendingReads + 3 ELSE MaxShort,
     ahead |-> IF sc = "flood" THEN maxPendingReads ELSE MaxAhead,
     deliveries |-> IF sc \in {"sub", "topic"} THEN MaxDeliveries ELSE 0,
     sends |-> IF sc \in {"topic", "handshake"} THEN MaxSends ELSE 0,
     beats |-> IF sc = "beat" THEN MaxBeats ELSE 0]

----------------------------------------------------------------------------
Init ==
    /\ pc = "run"
    /\ panicked = FALSE
    /\ stateFunc = "connecting"
    /\ readChannel = << >>
    /\ readClosed = FALSE
    /\ inbound = << >>
    /\ writeChannel = << >>
    /\ subChannel = << >>
    /\ subFrame = [s \in SubIds |-> NilFrame]
    /\ inList = [s \in SubIds |-> FALSE]
    /\ subList = << >>
    /\ subs = {}
    /\ txStore = EmptyStore
    /\ lastMsgId = 0
    /\ readTimeout = 0
    /\ writeTimeout = 0
    /\ version = ""
    /\ broken = FALSE
    /\ rwClosed = FALSE
    /\ awaiting = {}
    /\ scenario \in Scenarios
    /\ budget = Budget(scenario)
    /\ timer = 0
    /\ idle = 0
    /\ held = NilFrame
    /\ log = << >>

----------------------------------------------------------------------------
(* readLoop *)

\* reader.Read() yields a frame, which is put on the read channel; when the
\* channel is full the send blocks and readLoop keeps the frame
readLoopFrame ==
    /\ ~readClosed /\ ~rwClosed
    /\ held = NilFrame
    /\ Len(inbound) < budget.frames
    /\ Len(readChannel) < budget.ahead \/ Len(readChannel) = maxPendingReads
    /\ \E f \in InFrames(scenario) :
          LET g == [f EXCEPT !.n = Len(inbound) + 1] IN
          /\ inbound' = Append(inbound, g)
          /\ IF Len(readChannel) < maxPendingReads
             THEN readChannel' = Append(readChannel, g) /\ held' = held
             ELSE readChannel' = readChannel /\ held' = g
    /\ UNCHANGED <<pc, panicked, stateFunc, readClosed, writeChannel, subChannel,
                   subFrame, inList, subList, subs, txStore, lastMsgId,
                   readTimeout, writeTimeout, version, broken, rwClosed,
                   awaiting, budget, log,
                   scenario, timer, idle>>

\* the blocked send of readLoop goes through once the channel has room
readLoopSend ==
    /\ ~readClosed
    /\ held # NilFrame
    /\ Len(readChannel) < maxPendingReads
    /\ readChannel' = Append(readChannel, held)
    /\ held' = NilFrame
    /\ UNCHANGED <<pc, panicked, stateFunc, readClosed, inbound, writeChannel,
                   subChannel, subFrame, inList, subList, subs, txStore,
                   lastMsgId, readTimeout, writeTimeout, version, broken,
                   rwClosed, awaiting, budget, log,
                   scenario, timer, idle>>

\* reader.Read() fails (EOF, deadline, closed socket): close the read channel
readLoopError ==
    /\ ~readClosed
    /\ held = NilFrame
    /\ readClosed' = TRUE
    /\ UNCHANGED <<pc, panicked, stateFunc, readChannel, inbound, writeChannel,
                   subChannel, subFrame, inList, subList, subs, txStore,
                   lastMsgId, readTimeout, writeTimeout, version, broken,
                   rwClosed, awaiting, budget, log,
                   scenario, timer, idle, held>>

----------------------------------------------------------------------------
(* The upper layer *)

\* Conn.Send(f) with a topic MESSAGE, and Conn.SendError
ConnSend ==
    /\ pc # "done"
    /\ budget.sends > 0
    /\ Len(writeChannel) < maxPendingWrites
    /\ \E f \in {TopicMessage(s) : s \in {x \in SubIds : Subscribed(log, x)}}
                \cup {[Frame("ERROR") EXCEPT !.message = "shutdown"]} :
          writeChannel' = Append(writeChannel, f)
    /\ budget' = [budget EXCEPT !.sends = @ - 1]
    /\ UNCHANGED <<pc, panicked, stateFunc, readChannel, readClosed, inbound,
                   subChannel, subFrame, inList, subList, subs, txStore,
                   lastMsgId, readTimeout, writeTimeout, version, broken,
                   rwClosed, awaiting, log,
                   scenario, timer, idle, held>>

\* a subscription is given a frame and put on the subscription channel
Deliver ==
    /\ pc # "done"
    /\ budget.deliveries > 0
    /\ Len(subChannel) < maxPendingWrites
    /\ \E s \in SubIds \ awaiting :
          /\ Subscribed(log, s)
          /\ subFrame' = [subFrame EXCEPT ![s] = QueueMessage(s)]
          /\ subChannel' = Append(subChannel, s)
          /\ awaiting' = awaiting \cup {s}
    /\ budget' = [budget EXCEPT !.deliveries = @ - 1]
    /\ UNCHANGED <<pc, panicked, stateFunc, readChannel, readClosed, inbound,
                   writeChannel, inList, subList, subs, txStore, lastMsgId,
                   readTimeout, writeTimeout, version, broken, rwClosed, log,
                   scenario, timer, idle, held>>

----------------------------------------------------------------------------
(* processLoop *)

\* the connection as a state function sees it
Conn(wok, cur) ==
    [log |-> log, txStore |-> txStore, writeChannel |-> writeChannel,
     stateFunc |-> stateFunc, readTimeout |-> readTimeout,
     writeTimeout |-> writeTimeout, version |-> version,
     wok |-> wok, cur |-> cur, tried |-> FALSE]

\* the requests and writes a step has added to the log
Added(newlog) == SubSeq(newlog, Len(log) + 1, Len(newlog))

\* the step has written to the socket
Wrote(newlog) == \E i \in (Len(log) + 1)..Len(newlog) : newlog[i].kind = "write"

\* allocateMessageId not advancing c.lastMsgId
allocateMessageIdStale(last, f, ack) ==
    IF f.cmd = "MESSAGE"
    THEN LET messageId == FormatUint(last + 1) IN
         [lastMsgId |-> last,
          f |-> IF ack = "auto"
                THEN [f EXCEPT !.messageId = messageId, !.ack = NoDigits]
                ELSE [f EXCEPT !.messageId = messageId, !.ack = messageId],
          panic |-> ack = "nil"]
    ELSE [lastMsgId |-> last, f |-> f, panic |-> FALSE]

\* allocateMessageId(f, sub); ack is sub.ack, "nil" when sub is nil
allocateMessageId(last, f, ack) ==
    IF f.cmd = "MESSAGE"
    THEN LET messageId == FormatUint(last + 1) IN
         [lastMsgId |-> last + 1,
          f |-> IF ack = "auto"
                THEN [f EXCEPT !.messageId = messageId, !.ack = NoDigits]
                ELSE [f EXCEPT !.messageId = messageId, !.ack = messageId],
          panic |-> ack = "nil"]
    ELSE [lastMsgId |-> last, f |-> f, panic |-> FALSE]

\* processFrame going on with the loop after it has sent an ERROR frame
processFrameOn(c, f) ==
    LET v == Validate(f) IN
    IF v # "" THEN [c |-> sendErrorImmediately(c, v, f), err |-> ""]
    ELSE LET r == callStateFunc(c, f) IN
         IF r.err # "" THEN [c |-> sendErrorImmediately(r.c, r.err, r.f), err |-> ""]
         ELSE [c |-> r.c, err |-> ""]

\* case f, ok := <-c.readChannel
\* the outcome of validating and handling f: [c, err]
processFrame(c, f) ==
    LET v == Validate(f) IN
    IF v # "" THEN [c |-> sendErrorImmediately(c, v, f), err |-> v]
    ELSE LET r == callStateFunc(c, f) IN
         IF r.err # "" THEN [c |-> sendErrorImmediately(r.c, r.err, r.f), err |-> r.err]
         ELSE [c |-> r.c, err |-> ""]

\* a receive that never reports the channel closed
recvOpen(ch, closed) == FALSE

\* f, ok := <-ch yields ok false: the channel is closed and empty
recvClosed(ch, closed) == ch = << >> /\ closed

caseReadChannel ==
    /\ pc = "run"
    /\ \/ /\ recvClosed(readChannel, readClosed)
          /\ pc' = "cleanup"
          /\ UNCHANGED <<readChannel, log, txStore, writeChannel, stateFunc,
                         readTimeout, writeTimeout, version, broken, awaiting>>
       \/ /\ readChannel # << >>
          /\ \E fail \in BOOLEAN :
                LET f == Head(readChannel)
                    r == processFrame(Conn(~(broken \/ fail), 0), f)
                IN  /\ Len(r.c.writeChannel) <= maxPendingWrites
                    /\ readChannel' = Tail(readChannel)
                    /\ log' = r.c.log
                    /\ txStore' = r.c.txStore
                    /\ writeChannel' = r.c.writeChannel
                    /\ stateFunc' = r.c.stateFunc
                    /\ readTimeout' = r.c.readTimeout
                    /\ writeTimeout' = r.c.writeTimeout
                    /\ version' = r.c.version
                    /\ broken' = (broken \/ (r.c.tried /\ ~r.c.wok))
                    /\ awaiting' = UpperObserve(awaiting, Added(r.c.log), subFrame)
                    /\ pc' = IF r.err # "" THEN "cleanup" ELSE "run"
    /\ UNCHANGED <<panicked, readClosed, inbound, subChannel, subFrame, inList,
                   subList, subs, lastMsgId, rwClosed, budget,
                   scenario, held>>
    /\ timer' = 0
    /\ idle' = IF Wrote(log') THEN 0 ELSE idle

\* case f, ok := <-c.writeChannel
caseWriteChannel ==
    /\ pc = "run"
    /\ writeChannel # << >>
    /\ \E fail \in BOOLEAN :
          LET a == allocateMessageId(lastMsgId, Head(writeChannel), "nil")
              w == sendImmediately(Conn(~(broken \/ fail), 0), a.f)
          IN  /\ writeChannel' = Tail(writeChannel)
              /\ lastMsgId' = a.lastMsgId
              /\ IF a.panic
                 THEN /\ panicked' = TRUE
                      /\ pc' = "cleanup"
                      /\ UNCHANGED <<log, broken>>
                 ELSE /\ log' = w.c.log
                      /\ broken' = (broken \/ ~w.c.wok)
                      /\ pc' = IF w.err # "" \/ a.f.cmd = "ERROR"
                               THEN "cleanup" ELSE "run"
                      /\ UNCHANGED panicked
    /\ UNCHANGED <<stateFunc, readChannel, readClosed, inbound, subChannel,
                   subFrame, inList, subList, subs, txStore, readTimeout,
                   writeTimeout, version, rwClosed, awaiting, budget,
                   scenario, held>>
    /\ timer' = 0
    /\ idle' = IF Wrote(log') THEN 0 ELSE idle

\* case sub, ok := <-c.subChannel
caseSubChannel ==
    /\ pc = "run"
    /\ subChannel # << >>
    /\ \E fail \in BOOLEAN :
          LET sub == Head(subChannel)
              a == allocateMessageId(lastMsgId, subFrame[sub], SubAck(sub))
              w == sendImmediately(Conn(~(broken \/ fail), 0), a.f)
              auto == SubAck(sub) = "auto"
              done == IF auto
                      THEN Append(w.c.log, ReqEv("Subscribe", NilFrame, sub))
                      ELSE w.c.log
          IN  /\ subChannel' = Tail(subChannel)
              /\ lastMsgId' = a.lastMsgId
              /\ subFrame' = [subFrame EXCEPT ![sub] = a.f]
              /\ broken' = (broken \/ ~w.c.wok)
              /\ IF w.err # ""
                 THEN /\ pc' = "cleanup"
                      /\ UNCHANGED <<log, subList, inList, panicked, awaiting>>
                 ELSE /\ log' = done
                      /\ awaiting' = UpperObserve(awaiting, Added(done), subFrame')
                      /\ IF auto
                         THEN /\ pc' = "run"
                              /\ UNCHANGED <<subList, inList, panicked>>
                         ELSE IF inList[sub]
                         THEN \* SubscriptionList.Add panics
                              /\ pc' = "cleanup"
                              /\ panicked' = TRUE
                              /\ UNCHANGED <<subList, inList>>
                         ELSE /\ subList' = Append(subList, sub)
                              /\ inList' = [inList EXCEPT ![sub] = TRUE]
                              /\ pc' = "run"
                              /\ UNCHANGED panicked
    /\ UNCHANGED <<stateFunc, readChannel, readClosed, inbound, writeChannel,
                   subs, txStore, readTimeout, writeTimeout, version, rwClosed,
                   budget,
                   scenario, held>>
    /\ timer' = 0
    /\ idle' = IF Wrote(log') THEN 0 ELSE idle

\* case _ = <-timerChannel
caseTimer ==
    /\ pc = "run"
    /\ writeTimeout > 0
    /\ timer >= TicksPerInterval
    /\ budget.beats > 0
    /\ \E fail \in BOOLEAN :
          LET w == sendImmediately(Conn(~(broken \/ fail), 0), NilFrame) IN
          /\ log' = w.c.log
          /\ broken' = (broken \/ ~w.c.wok)
          /\ pc' = IF w.err # "" THEN "cleanup" ELSE "run"
    /\ budget' = [budget EXCEPT !.beats = @ - 1]
    /\ UNCHANGED <<panicked, stateFunc, readChannel, readClosed, inbound,
                   writeChannel, subChannel, subFrame, inList, subList, subs,
                   txStore, lastMsgId, readTimeout, writeTimeout, version,
                   rwClosed, awaiting,
                   scenario, held>>
    /\ timer' = 0
    /\ idle' = IF Wrote(log') THEN 0 ELSE idle

\* time passes while processLoop waits in its select with no channel ready;
\* the timer made at the top of the loop fires when c.writeTimeout has passed
Tick ==
    /\ pc = "run"
    /\ writeTimeout > 0
    /\ writeChannel = << >> /\ subChannel = << >>
    /\ readChannel = << >> /\ ~readClosed
    /\ timer < TicksPerInterval
    /\ timer' = timer + 1
    /\ idle' = IF idle > TicksPerInterval THEN idle ELSE idle + 1
    /\ UNCHANGED <<pc, panicked, stateFunc, readChannel, readClosed, inbound,
                   writeChannel, subChannel, subFrame, inList, subList, subs,
                   txStore, lastMsgId, readTimeout, writeTimeout, version,
                   broken, rwClosed, awaiting, budget, scenario, held, log>>

----------------------------------------------------------------------------
(* cleanupConn, deferred by processLoop *)

\* the orders in which a range loop may visit the entries of a map
Orders(set) ==
    {q \in [1..Cardinality(set) -> set] : Range(q) = set}

\* one request per element of a sequence of subscriptions
RECURSIVE Requests(_, _, _)
Requests(op, q, frames) ==
    IF q = << >> THEN << >>
    ELSE <<ReqEv(op, IF op = "Requeue" THEN frames[Head(q)] ELSE NilFrame,
                 IF op = "Requeue" THEN None ELSE Head(q))>>
         \o Requests(op, Tail(q), frames)

\* discardWriteChannelFrames(): what is left of the write channel
discardWriteChannelFrames(ch) == << >>

\* cleanupSubChannel(): the requests sent while emptying the channel
cleanupSubChannel(ch, frames) == Requests("Requeue", ch, frames)

Reverse(q) == [i \in 1..Len(q) |-> q[Len(q) + 1 - i]]

\* the requeue loop taking the subscriptions from the back of the list
requeueSubListBack(list, frames) == Requests("Requeue", Reverse(list), frames)

\* for sub := c.subList.Get(); sub != nil; sub = c.subList.Get()
requeueSubList(list, frames) == Requests("Requeue", list, frames)

\* cleanupConn up to the Disconnected request
cleanupConn ==
    /\ pc = "cleanup"
    /\ \E order \in Orders(subs) :
          log' = log \o Requests("Unsubscribe", order, subFrame)
                     \o requeueSubList(subList, subFrame)
                     \o cleanupSubChannel(subChannel, subFrame)
                     \o <<ReqEv("Disconnected", NilFrame, None)>>
    /\ txStore' = txInit(txStore)
    /\ writeChannel' = discardWriteChannelFrames(writeChannel)
    /\ subs' = {}
    /\ subList' = << >>
    /\ inList' = [s \in SubIds |-> IF s \in Range(subList) THEN FALSE ELSE inList[s]]
    /\ subChannel' = << >>
    /\ awaiting' = UpperObserve(awaiting, Added(log'), subFrame)
    /\ pc' = "drain"
    /\ UNCHANGED <<panicked, stateFunc, readChannel, readClosed, inbound,
                   subFrame, lastMsgId, readTimeout, writeTimeout, version,
                   broken, rwClosed, budget,
                   scenario, timer, idle, held>>

\* the rest of cleanupConn: empty the queues once more, close the socket
cleanupClose ==
    /\ pc = "drain"
    /\ log' = log \o cleanupSubChannel(subChannel, subFrame)
    /\ writeChannel' = discardWriteChannelFrames(writeChannel)
    /\ subChannel' = << >>
    /\ awaiting' = UpperObserve(awaiting, Added(log'), subFrame)
    /\ rwClosed' = TRUE
    /\ pc' = "done"
    /\ UNCHANGED <<panicked, stateFunc, readChannel, readClosed, inbound,
                   subFrame, inList, subList, subs, txStore, lastMsgId,
                   readTimeout, writeTimeout, version, broken, budget,
                   scenario, timer, idle, held>>

----------------------------------------------------------------------------
Next ==
    \/ readLoopFrame
    \/ readLoopSend
    \/ readLoopError
    \/ ConnSend
    \/ Deliver
    \/ caseReadChannel
    \/ caseWriteChannel
    \/ caseSubChannel
    \/ caseTimer
    \/ Tick
    \/ cleanupConn
    \/ cleanupClose

Spec == Init /\ [][Next]_vars

----------------------------------------------------------------------------
(* The sessions of clients that send one CONNECT or STOMP frame with any     *)
(* accept-version header: Validate and handleConnect apply AcceptVersion to  *)
(* it.                                                                       *)

InitVersions ==
    /\ pc = "run"
    /\ panicked = FALSE
    /\ stateFunc = "connecting"
    /\ readChannel = << >>
    /\ readClosed = FALSE
    /\ inbound = << >>
    /\ writeChannel = << >>
    /\ subChannel = << >>
    /\ subFrame = [s \in SubIds |-> NilFrame]
    /\ inList = [s \in SubIds |-> FALSE]
    /\ subList = << >>
    /\ subs = {}
    /\ txStore = EmptyStore
    /\ lastMsgId = 0
    /\ readTimeout = 0
    /\ writeTimeout = 0
    /\ version = ""
    /\ broken = FALSE
    /\ rwClosed = FALSE
    /\ awaiting = {}
    /\ scenario = "versions"
    /\ budget = Budget(scenario)
    /\ timer = 0
    /\ idle = 0
    /\ held = NilFrame
    /\ log = << >>

NextVersions ==
    \/ readLoopFrame
    \/ readLoopError
    \/ caseReadChannel
    \/ caseWriteChannel
    \/ cleanupConn
    \/ cleanupClose

SpecVersions == InitVersions /\ [][NextVersions]_vars

----------------------------------------------------------------------------
(* SubscriptionList on its own: any sequence of its four operations on the *)
(* list c.subList and the subscriptions of SubIds, whose id is their name. *)
(* log records the operations applied.                                     *)

OpEv(op, sub) == [kind |-> "op", op |-> op, frame |-> NilFrame, sub |-> sub]

\* list.List.Remove of the element at position i
listRemove(list, i) == SubSeq(list, 1, i - 1) \o SubSeq(list, i + 1, Len(list))

\* the first element of the list that is sub, 0 when there is none
listFind(list, sub) ==
    IF sub \in Range(list)
    THEN CHOOSE i \in 1..Len(list) :
            list[i] = sub /\ \A j \in 1..(i - 1) : list[j] # sub
    ELSE 0

InitList ==
    /\ pc = "run"
    /\ panicked = FALSE
    /\ stateFunc = "connecting"
    /\ readChannel = << >>
    /\ readClosed = FALSE
    /\ inbound = << >>
    /\ writeChannel = << >>
    /\ subChannel = << >>
    /\ subFrame = [s \in SubIds |-> NilFrame]
    /\ inList = [s \in SubIds |-> FALSE]
    /\ subList = << >>
    /\ subs = {}
    /\ txStore = EmptyStore
    /\ lastMsgId = 0
    /\ readTimeout = 0
    /\ writeTimeout = 0
    /\ version = ""
    /\ broken = FALSE
    /\ rwClosed = FALSE
    /\ awaiting = {}
    /\ scenario = "list"
    /\ budget = Budget(scenario)
    /\ timer = 0
    /\ idle = 0
    /\ held = NilFrame
    /\ log = << >>

\* sl.Add(sub)
Add ==
    /\ ~panicked /\ Len(log) < MaxOps
    /\ \E sub \in SubIds :
          /\ log' = Append(log, OpEv("Add", sub))
          /\ IF inList[sub]
             THEN panicked' = TRUE /\ UNCHANGED <<subList, inList>>
             ELSE /\ subList' = Append(subList, sub)
                  /\ inList' = [inList EXCEPT ![sub] = TRUE]
                  /\ UNCHANGED panicked
    /\ UNCHANGED <<pc, stateFunc, readChannel, readClosed, inbound, writeChannel,
                   subChannel, subFrame, subs, txStore, lastMsgId, readTimeout,
                   writeTimeout, version, broken, rwClosed, awaiting, budget,
                   scenario, timer, idle, held>>

\* sl.Get()
Get ==
    /\ ~panicked /\ Len(log) < MaxOps
    /\ IF Len(subList) = 0
       THEN /\ log' = Append(log, OpEv("Get", None))
            /\ UNCHANGED <<subList, inList>>
       ELSE /\ log' = Append(log, OpEv("Get", Head(subList)))
            /\ subList' = Tail(subList)
            /\ inList' = [inList EXCEPT ![Head(subList)] = FALSE]
    /\ UNCHANGED <<pc, panicked, stateFunc, readChannel, readClosed, inbound,
                   writeChannel, subChannel, subFrame, subs, txStore, lastMsgId,
                   readTimeout, writeTimeout, version, broken, rwClosed,
                   awaiting, budget, scenario, timer, idle, held>>

\* sl.Remove(s)
Remove ==
    /\ ~panicked /\ Len(log) < MaxOps
    /\ \E s \in SubIds :
          LET i == listFind(subList, s) IN
          /\ log' = Append(log, OpEv("Remove", s))
          /\ IF i = 0
             THEN UNCHANGED <<subList, inList>>
             ELSE /\ subList' = listRemove(subList, i)
                  /\ inList' = [inList EXCEPT ![s] = FALSE]
    /\ UNCHANGED <<pc, panicked, stateFunc, readChannel, readClosed, inbound,
                   writeChannel, subChannel, subFrame, subs, txStore, lastMsgId,
                   readTimeout, writeTimeout, version, broken, rwClosed,
                   awaiting, budget, scenario, timer, idle, held>>

\* sl.FindByIdAndRemove(id)
FindByIdAndRemove ==
    /\ ~panicked /\ Len(log) < MaxOps
    /\ \E id \in SubIds :
          LET i == listFind(subList, id) IN
          /\ log' = Append(log, OpEv("FindByIdAndRemove", id))
          /\ IF i = 0
             THEN UNCHANGED subList
             ELSE subList' = listRemove(subList, i)
    /\ UNCHANGED <<pc, panicked, stateFunc, readChannel, readClosed, inbound,
                   writeChannel, subChannel, subFrame, inList, subs, txStore,
                   lastMsgId, readTimeout, writeTimeout, version, broken,
                   rwClosed, awaiting, budget, scenario, timer, idle, held>>

NextList ==
    \/ Add
    \/ Get
    \/ Remove
    \/ FindByIdAndRemove

SpecList == InitList /\ [][NextList]_vars

----------------------------------------------------------------------------
(* select takes a case that is ready, chosen at random among those that    *)
(* are: the read-channel case, which stays ready until it is taken, is     *)
(* taken in the end.  The deferred cleanupConn runs once processLoop        *)
(* returns, its requests being received by the upper layer.                *)

SpecFair ==
    /\ Spec
    /\ WF_vars(caseReadChannel)
    /\ WF_vars(cleanupConn)
    /\ WF_vars(cleanupClose)

----------------------------------------------------------------------------
(* What the log and the history of inbound frames tell *)

\* the number of inbound frames processLoop has taken from the read channel
Processed == Len(inbound) - Len(readChannel)

\* the inbound frame a request's frame came in as (with all its headers)
Original(f) == inbound[f.n]

\* the MESSAGE frames written to the socket, in the order written
Messages(events) ==
    LET IsMessage(e) == IsWrite(e, "MESSAGE")
        written == SelectSeq(events, IsMessage)
    IN  [i \in 1..Len(written) |-> written[i].frame]

----------------------------------------------------------------------------
(* Claims *)

\* C1: for every Enqueue request of an inbound frame that carried a receipt
\* header, the RECEIPT frame for that inbound frame, with the matching
\* receipt-id, was written to the socket before the request was sent.
C1_ReceiptBeforeEnqueue ==
    \A j \in 1..Len(log) :
        (IsReq(log[j], "Enqueue") /\ Contains(Original(log[j].frame), "receipt"))
        => \E i \in 1..(j - 1) :
              /\ IsWrite(log[i], "RECEIPT")
              /\ log[i].src = log[j].frame.n
              /\ log[i].frame.receiptId = Original(log[j].frame).receipt

\* C1 witness: frames of two different commands that carried a receipt
\* header have been passed to the upper layer
C1_Witness ==
    \E j, k \in 1..Len(log) :
        /\ IsReq(log[j], "Enqueue") /\ IsReq(log[k], "Enqueue")
        /\ Contains(Original(log[j].frame), "receipt")
        /\ Contains(Original(log[k].frame), "receipt")
        /\ log[j].frame.cmd = "SUBSCRIBE"
        /\ log[k].frame.cmd = "ACK"

\* C2, as claimed: once the session has terminated, every MESSAGE written
\* with an ack header (ack mode client or client-individual) was either
\* answered by an ACK or NACK passed to the upper layer or handed back in a
\* Requeue request, and not both.
C2_AckXorRequeue ==
    pc = "done" =>
        \A i \in 1..Len(log) :
            (IsWrite(log[i], "MESSAGE") /\ log[i].frame.ack # NoDigits) =>
                LET m == log[i].frame
                    acked == \E j \in (i + 1)..Len(log) :
                                /\ IsReq(log[j], "Enqueue")
                                /\ log[j].frame.cmd \in {"ACK", "NACK"}
                                /\ log[j].frame.id = DigitString(m.ack)
                    requeued == \E j \in (i + 1)..Len(log) :
                                /\ IsReq(log[j], "Requeue")
                                /\ log[j].frame = m
                IN  (acked \/ requeued) /\ ~(acked /\ requeued)

\* C3, as claimed: once the session has terminated, the upper layer has
\* received exactly one Unsubscribe request for every subscription the
\* client had made and not ended when the session terminated.
C3_UnsubscribeActive ==
    pc = "done" =>
        \A s \in SubIds :
            Subscribed(log, s) =>
                LET IsUnsub(e) == IsReq(e, "Unsubscribe") /\ e.sub = s
                IN  Len(SelectSeq(log, IsUnsub)) = 1

\* a DISCONNECT frame has been handled by the connected state function
DisconnectReceived ==
    /\ stateFunc = "connected"
    /\ \E k \in 2..Processed : inbound[k].cmd = "DISCONNECT"

\* the writes to the socket among a sequence of events
Writes(events) == LET IsOutput(e) == e.kind = "write" IN SelectSeq(events, IsOutput)

\* C4, as claimed: once a DISCONNECT frame has been handled in the connected
\* state (its RECEIPT, if any, is written in that step), no step writes a
\* frame to the socket any more.
C4_SilentAfterDisconnect ==
    [][DisconnectReceived => Writes(log') = Writes(log)]_vars

\* C5: the message-ids of the MESSAGE frames written to the socket are
\* decimal numbers without sign or padding, the first one is 1, and each is
\* greater than the one written before it.
C5_MessageIdsIncrease ==
    LET m == Messages(log) IN
    /\ \A i \in 1..Len(m) :
          /\ m[i].messageId # NoDigits
          /\ \A k \in 1..Len(m[i].messageId) : m[i].messageId[k] \in 0..9
          /\ FormatUint(ParseUint(m[i].messageId)) = m[i].messageId
    /\ Len(m) > 0 => ParseUint(m[1].messageId) = 1
    /\ \A i \in 1..(Len(m) - 1) :
          ParseUint(m[i].messageId) < ParseUint(m[i + 1].messageId)

\* C5 witness: two MESSAGE frames for different subscriptions have been written
C5_Witness ==
    LET m == Messages(log) IN
    Len(m) >= 2 /\ m[1].subscription # m[2].subscription

\* the SEND frames that came in with a transaction header
IsTxSend(f) == f.cmd = "SEND" /\ Contains(Original(f), "transaction")

\* C6: a step sends an Enqueue request for a SEND frame that came in with a
\* transaction header only if the step handles a COMMIT frame naming that
\* transaction and the frame is in the transaction store under that id at
\* that moment: never before the COMMIT, and never once the transaction was
\* aborted or the store emptied by cleanup.
C6_TxSendOnlyAtCommit ==
    [][\A i \in (Len(log) + 1)..Len(log') :
          (IsReq(log'[i], "Enqueue") /\ IsTxSend(log'[i].frame)) =>
              /\ pc = "run" /\ readChannel # << >>
              /\ readChannel' = Tail(readChannel)
              /\ Head(readChannel).cmd = "COMMIT"
              /\ Head(readChannel).transaction = Original(log'[i].frame).transaction
              /\ Head(readChannel).transaction \in DOMAIN txStore
              /\ \E x \in Range(txStore[Head(readChannel).transaction]) :
                    x.n = log'[i].frame.n]_vars

\* C6 witness: a transaction with a SEND frame has been aborted, and the
\* frame has not been passed to the upper layer
C6_Witness ==
    \E n, k \in 1..Processed :
        /\ n < k
        /\ inbound[n].cmd = "SEND" /\ Contains(inbound[n], "transaction")
        /\ inbound[k].cmd = "ABORT"
        /\ pc = "run"
        /\ DOMAIN txStore = {}
        /\ \A j \in 1..Len(log) : ~(IsReq(log[j], "Enqueue") /\ log[j].frame.n = n)

\* the SEND frames put into transaction t since its BEGIN, in order, as they
\* came in
SinceBegin(t) ==
    LET IsBegin(k) == inbound[k].cmd = "BEGIN" /\ inbound[k].transaction = t
        b == CHOOSE k \in 1..Processed :
                IsBegin(k) /\ \A j \in (k + 1)..Processed : ~IsBegin(j)
        InTx(f) == f.cmd = "SEND" /\ f.transaction = t
    IN  SelectSeq(SubSeq(inbound, b + 1, Processed), InTx)

\* processLoop handles a COMMIT frame and txStore.Commit runs
CommitStep ==
    /\ pc = "run" /\ readChannel # << >>
    /\ readChannel' = Tail(readChannel)
    /\ stateFunc = "connected"
    /\ Head(readChannel).cmd = "COMMIT"
    /\ Head(readChannel).transaction \in DOMAIN txStore
    /\ Head(readChannel).transaction \notin DOMAIN txStore'

\* C7: the step in which a COMMIT of transaction t is carried out adds to
\* the log the RECEIPT of the COMMIT, if it asked for one, and after it one
\* Enqueue request for each SEND frame put into t since its BEGIN, in the
\* order they came in, none of which had been passed on before; and nothing
\* else.
C7_CommitReplaysInOrder ==
    [][CommitStep =>
        LET f == Head(readChannel)
            sent == SinceBegin(f.transaction)
            new == Added(log')
            r == IF Contains(f, "receipt") THEN 1 ELSE 0
        IN  /\ Len(new) = r + Len(sent)
            /\ r = 1 => /\ IsWrite(new[1], "RECEIPT")
                        /\ new[1].frame.receiptId = f.receipt
            /\ \A i \in 1..Len(sent) :
                  /\ IsReq(new[r + i], "Enqueue")
                  /\ new[r + i].frame.n = sent[i].n
                  /\ new[r + i].frame.cmd = "SEND"
                  /\ new[r + i].frame.destination = sent[i].destination
                  /\ \A j \in 1..Len(log) :
                        ~(IsReq(log[j], "Enqueue") /\ log[j].frame.n = sent[i].n)]_vars

\* C7 witness: a COMMIT with a receipt header has been answered and two
\* SEND frames of its transaction passed on after the RECEIPT
C7_Witness ==
    \E i \in 1..(Len(log) - 2) :
        /\ IsWrite(log[i], "RECEIPT")
        /\ inbound[log[i].src].cmd = "COMMIT"
        /\ IsReq(log[i + 1], "Enqueue") /\ IsTxSend(log[i + 1].frame)
        /\ IsReq(log[i + 2], "Enqueue") /\ IsTxSend(log[i + 2].frame)
        /\ log[i + 1].frame.n < log[i + 2].frame.n

\* the frames held in the transaction store
Stored == UNION {Range(txStore[t]) : t \in DOMAIN txStore}

\* the number of RECEIPT frames written for inbound frame n
ReceiptsFor(n) ==
    LET IsReceipt(e) == IsWrite(e, "RECEIPT") /\ e.src = n
    IN  Len(SelectSeq(log, IsReceipt))

\* C8: a frame in the transaction store has neither a receipt nor a
\* transaction header; a SEND frame passed to the upper layer has neither;
\* and for a SEND frame that came in with a transaction and a receipt header
\* and was stored or passed on, exactly one RECEIPT was written, with the
\* receipt-id of the frame.
C8_StoredFramesStripped ==
    /\ \A x \in Stored :
          /\ ~Contains(x, "receipt") /\ ~Contains(x, "transaction")
          /\ Contains(Original(x), "receipt") => ReceiptsFor(x.n) = 1
    /\ \A j \in 1..Len(log) :
          (IsReq(log[j], "Enqueue") /\ log[j].frame.cmd = "SEND") =>
              /\ ~Contains(log[j].frame, "receipt")
              /\ ~Contains(log[j].frame, "transaction")
              /\ Contains(Original(log[j].frame), "receipt") =>
                    ReceiptsFor(log[j].frame.n) = 1
    /\ \A i \in 1..Len(log) :
          IsWrite(log[i], "RECEIPT") =>
              log[i].frame.receiptId = inbound[log[i].src].receipt

\* C8 witness: a SEND frame that came in with a transaction and a receipt
\* header has been passed to the upper layer by a COMMIT
C8_Witness ==
    \E j \in 1..Len(log) :
        /\ IsReq(log[j], "Enqueue") /\ IsTxSend(log[j].frame)
        /\ Contains(Original(log[j].frame), "receipt")

\* the first part of cleanupConn is carried out
CleanupStep == pc = "cleanup" /\ pc' = "drain"

Disconnects(events) ==
    LET IsDisconnected(e) == IsReq(e, "Disconnected")
    IN  Len(SelectSeq(events, IsDisconnected))

\* C9: the upper layer has received one Disconnected request once cleanup
\* has sent it and none before; the step of cleanupConn that sends it sends
\* before it, after the Unsubscribe requests, one Requeue request for each
\* subscription in the pending-ack list, in the order of the list, with the
\* frame the subscription holds; and it leaves the list empty.
C9_CleanupRequeuesPending ==
    [][/\ Disconnects(log') = IF pc' \in {"drain", "done"} THEN 1 ELSE 0
       /\ pc' \in {"drain", "done"} => subList' = << >>
       /\ CleanupStep =>
            LET new == Added(log')
                IsUnsub(e) == IsReq(e, "Unsubscribe")
                u == Len(SelectSeq(new, IsUnsub))
            IN  /\ Len(new) >= u + Len(subList) + 1
                /\ \A i \in 1..u : IsUnsub(new[i])
                /\ \A i \in 1..Len(subList) :
                      /\ IsReq(new[u + i], "Requeue")
                      /\ new[u + i].frame = subFrame[subList[i]]
                      /\ new[u + i].frame.subscription = subList[i]
                /\ IsReq(new[Len(new)], "Disconnected")]_vars

\* C9 witness: cleanup has run with two subscriptions in the pending-ack
\* list, and their frames were handed back before the Disconnected request
C9_Witness ==
    /\ pc = "done"
    /\ \E i \in 1..(Len(log) - 2) :
          /\ IsReq(log[i], "Requeue") /\ IsReq(log[i + 1], "Requeue")
          /\ log[i].frame.subscription # log[i + 1].frame.subscription
          /\ log[i].frame.messageId # NoDigits
          /\ log[i + 1].frame.messageId # NoDigits
          /\ IsReq(log[i + 2], "Disconnected")

\* C10, as claimed: an ERROR frame written because of an inbound frame that
\* carried a receipt header has that receipt as its receipt-id.
C10_ErrorCarriesReceiptId ==
    \A i \in 1..Len(log) :
        (IsWrite(log[i], "ERROR") /\ log[i].src > 0
         /\ Contains(inbound[log[i].src], "receipt"))
        => log[i].frame.receiptId = inbound[log[i].src].receipt

\* processLoop takes an inbound frame from the read channel
ReadStep == pc = "run" /\ readChannel # << >> /\ readChannel' = Tail(readChannel)

\* the step has written to the socket the ERROR frame with message msg and
\* nothing else, or nothing at all if the write failed; no request was sent
OnlyError(msg) ==
    LET new == Added(log') IN
    IF broken' THEN new = << >>
    ELSE /\ Len(new) = 1
         /\ IsWrite(new[1], "ERROR")
         /\ new[1].frame.message = msg

\* C11, as claimed: the step that handles, in the connecting state, an
\* inbound frame whose command is not CONNECT or STOMP writes an ERROR frame
\* with the message of notConnected (unless the write fails) and ends the
\* session, the state still connecting.
C11_NotConnectedAnswer ==
    [][(ReadStep /\ stateFunc = "connecting"
        /\ Head(readChannel).cmd \notin {"CONNECT", "STOMP"})
       => /\ pc' = "cleanup"
          /\ stateFunc' = "connecting"
          /\ OnlyError("notConnected")]_vars

\* C11, amended: such a frame ends the session with the state still
\* connecting; the ERROR frame written has the message of notConnected if
\* the frame passes Validate, and the error of Validate if it does not.
C11_RejectedWhileConnecting ==
    [][(ReadStep /\ stateFunc = "connecting"
        /\ Head(readChannel).cmd \notin {"CONNECT", "STOMP"})
       => /\ pc' = "cleanup"
          /\ stateFunc' = "connecting"
          /\ OnlyError(IF Validate(Head(readChannel)) # ""
                       THEN Validate(Head(readChannel))
                       ELSE "notConnected")]_vars

\* C11 witness: a valid SEND frame came first and was answered with the
\* ERROR of notConnected, and the session has ended in the connecting state
C11_Witness ==
    /\ pc = "done" /\ stateFunc = "connecting"
    /\ Processed >= 1 /\ inbound[1].cmd = "SEND" /\ Validate(inbound[1]) = ""
    /\ \E i \in 1..Len(log) :
          IsWrite(log[i], "ERROR") /\ log[i].frame.message = "notConnected"

\* the commands a client may not send once connected
Unexpected == {"CONNECT", "STOMP", "MESSAGE", "RECEIPT", "ERROR"}

\* C12, as claimed: the step that handles, in the connected state, a CONNECT,
\* STOMP, MESSAGE, RECEIPT or ERROR frame writes an ERROR frame with the
\* message of unexpectedCommand (unless the write fails) and ends the
\* session; and no step takes the state from connected to connecting.
C12_UnexpectedAnswer ==
    [][/\ stateFunc = "connected" => stateFunc' = "connected"
       /\ (ReadStep /\ stateFunc = "connected"
           /\ Head(readChannel).cmd \in Unexpected)
          => /\ pc' = "cleanup"
             /\ OnlyError("unexpectedCommand")]_vars

\* C12, amended: the ERROR frame written has the message of
\* unexpectedCommand if the frame passes Validate, and the error of Validate
\* if it does not.
C12_RejectedOnceConnected ==
    [][/\ stateFunc = "connected" => stateFunc' = "connected"
       /\ (ReadStep /\ stateFunc = "connected"
           /\ Head(readChannel).cmd \in Unexpected)
          => /\ pc' = "cleanup"
             /\ OnlyError(IF Validate(Head(readChannel)) # ""
                          THEN Validate(Head(readChannel))
                          ELSE "unexpectedCommand")]_vars

\* C12 witness: a second CONNECT frame and, in another session, a RECEIPT
\* frame from the client were answered with the ERROR of unexpectedCommand
C12_Witness ==
    /\ pc = "done" /\ stateFunc = "connected"
    /\ Processed >= 2 /\ inbound[2].cmd \in {"CONNECT", "RECEIPT"}
    /\ \E i \in 1..Len(log) :
          /\ IsWrite(log[i], "ERROR") /\ log[i].src = 2
          /\ log[i].frame.message = "unexpectedCommand"

\* the commands of STOMP
Known == {"CONNECT", "STOMP", "CONNECTED", "SEND", "SUBSCRIBE", "UNSUBSCRIBE",
          "ACK", "NACK", "BEGIN", "COMMIT", "ABORT", "DISCONNECT", "MESSAGE",
          "RECEIPT", "ERROR"}

\* C13, as claimed: the step that handles, in the connected state, a frame
\* with a command that is none of the commands of STOMP writes an ERROR
\* frame with the message of unknownCommand (unless the write fails) and
\* ends the session.
C13_UnknownCommandAnswer ==
    [][(ReadStep /\ stateFunc = "connected" /\ Head(readChannel).cmd \notin Known)
       => /\ pc' = "cleanup"
          /\ OnlyError("unknownCommand")]_vars

\* C13, amended: the ERROR frame written has the message of invalidCommand,
\* the error of Validate, in the connected as in the connecting state.
C13_InvalidCommandAnswer ==
    [][(ReadStep /\ Head(readChannel).cmd \notin Known)
       => /\ pc' = "cleanup"
          /\ stateFunc' = stateFunc
          /\ OnlyError("invalidCommand")]_vars

\* C13 witness: after the handshake a frame with an unknown command was
\* answered with an ERROR frame and the session has ended
C13_Witness ==
    /\ pc = "done" /\ stateFunc = "connected"
    /\ Processed >= 2 /\ inbound[2].cmd \notin Known
    /\ \E i \in 1..Len(log) : IsWrite(log[i], "ERROR") /\ log[i].src = 2

\* C14: once an ERROR frame is written to the socket processLoop has left
\* its loop, and nothing is written to the socket after the ERROR frame.
C14_ErrorIsLastWrite ==
    \A i \in 1..Len(log) :
        IsWrite(log[i], "ERROR") =>
            /\ pc # "run"
            /\ \A j \in (i + 1)..Len(log) : log[j].kind # "write"

\* C14 witness: an ERROR frame from the write channel was written after
\* another frame, a frame was still waiting to be processed, and the session
\* has ended
C14_Witness ==
    /\ pc = "done"
    /\ readChannel # << >>
    /\ \E i \in 2..Len(log) :
          /\ IsWrite(log[i], "ERROR") /\ log[i].frame.message = "shutdown"
          /\ log[i - 1].kind = "write"

\* processLoop takes a subscription from the subscription channel and writes
\* its frame to the socket
DeliveryStep ==
    /\ pc = "run" /\ subChannel # << >> /\ subChannel' = Tail(subChannel)
    /\ ~broken'

\* C15, as claimed: the step that writes the frame of a subscription taken
\* from the subscription channel writes a MESSAGE that, for ack mode auto,
\* has no ack header, sends one Subscribe request for the subscription and
\* leaves the pending-ack list as it is; for another ack mode the MESSAGE
\* has its message-id as ack header, no request is sent and the
\* subscription is appended to the pending-ack list.
C15_DeliveryByAckMode ==
    [][DeliveryStep =>
        LET sub == Head(subChannel)
            new == Added(log')
        IN  /\ Len(new) >= 1
            /\ IsWrite(new[1], "MESSAGE")
            /\ new[1].frame.subscription = sub
            /\ new[1].frame.messageId # NoDigits
            /\ IF SubAck(sub) = "auto"
               THEN /\ new[1].frame.ack = NoDigits
                    /\ Len(new) = 2
                    /\ IsReq(new[2], "Subscribe") /\ new[2].sub = sub
                    /\ subList' = subList
               ELSE /\ new[1].frame.ack = new[1].frame.messageId
                    /\ Len(new) = 1
                    /\ subList' = Append(subList, sub)]_vars

\* the greater of a heart-beat value and the server's minimum, 0 staying 0
AtLeastMin(v) ==
    IF v = 0 THEN 0 ELSE IF v >= configHeartBeat THEN v ELSE configHeartBeat

\* processLoop handles a CONNECT or STOMP frame and the session is connected
ConnectStep == ReadStep /\ stateFunc = "connecting" /\ stateFunc' = "connected"

\* C16: the step that accepts a CONNECT or STOMP frame with heart-beat cx,cy
\* (0,0 if it has none) sets the read interval to cx and the write interval
\* to cy, each raised to the server's minimum unless it is 0, and queues a
\* CONNECTED frame whose heart-beat header is the write interval followed by
\* the read interval; a CONNECTED frame written to the socket has that
\* header.
C16_HeartBeatNegotiated ==
    [][/\ ConnectStep =>
            LET f == Head(readChannel)
                cx == IF Contains(f, "heart-beat") THEN f.heartBeat[1] ELSE 0
                cy == IF Contains(f, "heart-beat") THEN f.heartBeat[2] ELSE 0
            IN  /\ readTimeout' = AtLeastMin(cx)
                /\ writeTimeout' = AtLeastMin(cy)
                /\ writeChannel' # << >>
                /\ writeChannel'[Len(writeChannel')] =
                      [Frame("CONNECTED") EXCEPT
                          !.heartBeat = <<AtLeastMin(cy), AtLeastMin(cx)>>]
       /\ \A i \in 1..Len(log') :
             IsWrite(log'[i], "CONNECTED") =>
                log'[i].frame.heartBeat = <<writeTimeout', readTimeout'>>]_vars

\* C16 witness: a CONNECT with heart-beat 500,1000 was accepted and the
\* CONNECTED frame written has heart-beat 1000,800
C16_Witness ==
    /\ Processed >= 1 /\ inbound[1].heartBeat = <<500, 1000>>
    /\ readTimeout = 800 /\ writeTimeout = 1000
    /\ \E i \in 1..Len(log) :
          IsWrite(log[i], "CONNECTED") /\ log[i].frame.heartBeat = <<1000, 800>>

\* the versions of STOMP among the entries of an accept-version header
Recognized(l) == Range(l) \cap {"1.0", "1.1", "1.2"}

\* the greatest of a set of versions of STOMP
Greatest(vs) ==
    IF "1.2" \in vs THEN "1.2" ELSE IF "1.1" \in vs THEN "1.1" ELSE "1.0"

\* what the claim says the negotiation yields for a CONNECT or STOMP frame
Negotiated(f) ==
    IF Recognized(f.acceptVersion) # {}
    THEN [version |-> Greatest(Recognized(f.acceptVersion)), err |-> ""]
    ELSE IF f.acceptVersion # << >>
    THEN [version |-> "", err |-> "unknownVersion"]
    ELSE IF f.cmd = "CONNECT"
    THEN [version |-> "1.0", err |-> ""]
    ELSE [version |-> "", err |-> "missingHeader:accept-version"]

\* C17: for a CONNECT or STOMP frame AcceptVersion yields the greatest
\* version of STOMP among the entries of accept-version, whatever their
\* order and whatever else is listed; unknownVersion if none is a version
\* of STOMP; without the header 1.0 for CONNECT and missingHeader for STOMP.
\* The session, which applies AcceptVersion to the frame in Validate and
\* again in handleConnect, is connected with that version, or has answered
\* with that error and ended.
C17_GreatestVersionWins ==
    /\ \A i \in 1..Len(inbound) : AcceptVersion(inbound[i]) = Negotiated(inbound[i])
    /\ Processed >= 1 =>
          LET want == Negotiated(inbound[1]) IN
          IF want.err = ""
          THEN stateFunc = "connected" /\ version = want.version
          ELSE /\ stateFunc = "connecting" /\ pc # "run"
               /\ \A j \in 1..Len(log) :
                     log[j].kind = "write" =>
                        /\ log[j].frame.cmd = "ERROR"
                        /\ log[j].frame.message = want.err

\* C17 witness: a session is connected with version 1.2 for a frame that
\* lists 1.2 before 1.0 and an entry that is no version of STOMP
C17_Witness ==
    /\ Processed >= 1
    /\ inbound[1].acceptVersion = <<"1.2", "2.0", "1.0">>
    /\ stateFunc = "connected" /\ version = "1.2"

\* C18, as claimed: while processLoop runs with a write interval greater
\* than zero, the socket is never without output for longer than the write
\* interval: when the interval has passed since the last write, a heart-beat
\* is written, whatever inbound frames were handled in the meantime.
C18_HeartBeatWithinInterval ==
    (pc = "run" /\ writeTimeout > 0) => idle <= TicksPerInterval

\* processLoop finds the read channel closed
ClosureStep ==
    /\ pc = "run" /\ pc' = "cleanup"
    /\ readChannel = << >> /\ readClosed
    /\ writeChannel' = writeChannel /\ subChannel' = subChannel

\* C19: once the reader has closed the read channel, processLoop ends and
\* cleanupConn is carried out to its end; the step in which processLoop
\* finds the channel closed writes nothing to the socket and sends no
\* request, and nothing is written to the socket after processLoop has left
\* its loop.
C19_ClosedChannelEndsSession ==
    /\ readClosed ~> (pc = "done")
    /\ [][ClosureStep => log' = log]_vars
    /\ [][pc # "run" => Writes(log') = Writes(log)]_vars

\* C19 witness: a connected session with a subscription awaiting an
\* acknowledgement has ended because the read channel was closed, no ERROR
\* frame written, no write failed
C19_Witness ==
    /\ pc = "done" /\ readClosed /\ stateFunc = "connected"
    /\ ~broken /\ ~panicked
    /\ \A i \in 1..Len(log) : ~IsWrite(log[i], "ERROR")
    /\ \E i \in 1..Len(log) : IsReq(log[i], "Requeue")

\* C20, as claimed: a RECEIPT, MESSAGE or ERROR frame written to the socket
\* for an inbound frame that came after the CONNECT or STOMP frame, or for a
\* delivery, is written after the CONNECTED frame.
C20_ConnectedWrittenFirst ==
    \A i \in 1..Len(log) :
        (/\ log[i].kind = "write"
         /\ log[i].frame.cmd \in {"RECEIPT", "MESSAGE", "ERROR"}
         /\ (log[i].src > 1 \/ log[i].frame.cmd = "MESSAGE"))
        => \E j \in 1..(i - 1) : IsWrite(log[j], "CONNECTED")

\* processLoop takes a frame from the write channel
WriteStep == pc = "run" /\ writeChannel # << >> /\ writeChannel' = Tail(writeChannel)

\* C21, as claimed: the step that takes a frame from the write channel does
\* not end in a run-time panic; unless the write fails the frame is written
\* to the socket, a MESSAGE frame with the next message-id.
C21_WriteChannelNoPanic ==
    [][WriteStep =>
        /\ ~panicked'
        /\ ~broken' =>
              LET f == Head(writeChannel)
                  new == Added(log')
              IN  /\ Len(new) = 1
                  /\ IsWrite(new[1], f.cmd)
                  /\ f.cmd = "MESSAGE" =>
                        /\ new[1].frame.messageId = FormatUint(lastMsgId + 1)
                        /\ lastMsgId' = lastMsgId + 1]_vars

\* C22, as claimed: when cleanup has finished, the frame of every
\* subscription that processLoop took from the subscription channel (it has
\* a message-id from then on) was written to the socket or handed back to
\* the upper layer in a Requeue request.
C22_NoDeliveryLost ==
    pc = "done" =>
        \A s \in SubIds :
            subFrame[s].messageId # NoDigits =>
                \E i \in 1..Len(log) :
                    /\ IsWrite(log[i], "MESSAGE") \/ IsReq(log[i], "Requeue")
                    /\ log[i].frame.subscription = s
                    /\ log[i].frame.messageId = subFrame[s].messageId

\* the requests that pass on what the client or a delivery to it did
ClientRequests == {"Enqueue", "Subscribe"}

\* C23: as long as no CONNECT or STOMP frame was accepted, with a login that
\* c.config.Authenticate accepts, the state is connecting, the upper layer
\* has received no Enqueue or Subscribe request and the transaction store is
\* empty; the step that handles a CONNECT or STOMP frame which Authenticate
\* rejects leaves the state connecting, writes the ERROR of
\* authenticationFailed and ends the session.
C23_NothingBeforeAuthentication ==
    [][/\ stateFunc' = "connected" =>
             /\ Processed' >= 1
             /\ inbound'[1].cmd \in {"CONNECT", "STOMP"}
             /\ Authenticate(inbound'[1].login)
       /\ stateFunc' = "connecting" =>
             /\ \A i \in 1..Len(log') : log'[i].op \notin ClientRequests
             /\ DOMAIN txStore' = {}
       /\ (ReadStep /\ stateFunc = "connecting"
           /\ Head(readChannel).cmd \in {"CONNECT", "STOMP"}
           /\ Validate(Head(readChannel)) = ""
           /\ ~Contains(Head(readChannel), "receipt")
           /\ ~Authenticate(Head(readChannel).login))
          => /\ pc' = "cleanup"
             /\ stateFunc' = "connecting"
             /\ OnlyError("authenticationFailed")]_vars

\* C23 witness: a CONNECT frame with a login that is not accepted was
\* answered with the ERROR of authenticationFailed and the session has ended
C23_Witness ==
    /\ pc = "done" /\ stateFunc = "connecting"
    /\ Processed >= 1 /\ inbound[1].cmd = "CONNECT"
    /\ ~Authenticate(inbound[1].login)
    /\ \E i \in 1..Len(log) :
          IsWrite(log[i], "ERROR") /\ log[i].frame.message = "authenticationFailed"
    /\ \A i \in 1..Len(log) : log[i].op \notin ClientRequests

\* C24, as claimed: once processLoop has returned and cleanupConn has closed
\* the socket, readLoop is not blocked in its send on a full read channel
\* (nothing receives from the channel any more, so it would stay blocked and
\* never close the channel).
C24_ReaderNeverStuck ==
    ~(/\ pc = "done" /\ rwClosed
      /\ ~readClosed
      /\ held # NilFrame
      /\ Len(readChannel) = maxPendingReads)

\* C25, as claimed: after every operation of a subscription list the
\* back-pointer of a subscription is set exactly when the subscription is an
\* element of the list, no subscription occurs twice in the list, and Add
\* panics only for a subscription that is an element of the list.
C25_BackPointerIffMember ==
    [][/\ \A s \in SubIds : inList'[s] <=> s \in Range(subList')
       /\ \A i, j \in 1..Len(subList') : subList'[i] = subList'[j] => i = j
       /\ (panicked' /\ ~panicked) =>
             \E s \in Range(subList) : log' = Append(log, OpEv("Add", s))]_vars

====
